---- MODULE Spec2Model ----
(***************************************************************************)
(* KthLargestElement: the k-th largest element of a number stream, kept by *)
(* four strategies side by side (full sort of the stream, sorted           *)
(* shortlist, SortedList, binary heap).                                    *)
(*                                                                         *)
(* Python lists are objects with identity: `mem` maps the address of every *)
(* list to its content, and the fields of a KthLargestElement object hold  *)
(* addresses.  The caller owns the lists it passes as initial_stream.      *)
(***************************************************************************)
EXTENDS Integers, Sequences, FiniteSets, TLC

\* ---- bounds of the model
MaxVal == 2
MaxK == 3
MaxSeedLen == 3
MaxAdds == 2

Numbers == 0..MaxVal
Seeds == UNION {[1..n -> Numbers] : n \in 0..MaxSeedLen}

\* ---- objects and list addresses
Obj == {"A", "B"}
CallerLists == {<<"caller", "L1">>, <<"caller", "L2">>}
None == <<"None", "None">>
Addr == CallerLists \cup (Obj \X {"stream", "sorted_list", "bst", "heap"}) \cup {None}
Methods == {"stupid", "simple", "bst", "heap"}

\* the value of a strategy that has not returned in this add call
NoReturn == -1

VARIABLES
    mem,                            \* Addr -> content of the list at that address
    live,                           \* the objects the caller constructs
    initial_stream,                 \* constructor argument initial_stream (an address)
    arg_k,                          \* constructor argument k
    state,                          \* "Uninitialized" | "Ready"
    stream,                         \* self.stream (an address)
    k,                              \* self.k
    k_largest_elements_sorted_list, \* address of the shortlist
    k_largest_elements_bst,         \* address of the SortedList
    k_largest_elements_heap,        \* address of the heap
    runtimes,                       \* length of self.runtimes_<method>
    pc,                             \* position of the running add call
    number,                         \* argument of the running add call
    ret,                            \* values returned by the strategies in the running add
    before,                         \* contents of the containers when the running add began
    log,                            \* one record per add call that has ended
    observations,                   \* the observation sequence the caller feeds
    seed0                           \* content of initial_stream at construction

vars == <<mem, live, initial_stream, arg_k, state, stream, k,
          k_largest_elements_sorted_list, k_largest_elements_bst,
          k_largest_elements_heap, runtimes, pc, number, ret, before, log,
          observations, seed0>>

\* ---- Python list primitives
\* s[-n:]
slice_from_end(s, n) ==
    IF n = 0 \/ n >= Len(s) THEN s ELSE SubSeq(s, Len(s) - n + 1, Len(s))

\* insert x into the ascending sequence s, after the elements equal to it
RECURSIVE insort(_, _)
insort(s, x) ==
    IF s = <<>> THEN <<x>>
    ELSE IF x < Head(s) THEN <<x>> \o s
    ELSE <<Head(s)>> \o insort(Tail(s), x)

RECURSIVE insertion_sort(_)
insertion_sort(s) ==
    IF s = <<>> THEN <<>> ELSE insort(insertion_sort(SubSeq(s, 1, Len(s) - 1)), s[Len(s)])

\* sorted(iterable): a new ascending list
sorted(s) == insertion_sort(s)

\* list.sort(): the list in ascending order
list_sort_none(s) == s
list_sort(s) == insertion_sort(s)

\* list.append(x): the list with x at its end
list_append_front(s, x) == <<x>> \o s
list_append(s, x) == Append(s, x)

\* list.pop(0) / SortedList.pop(0): the list without its first element
pop_last(s) == SubSeq(s, 1, Len(s) - 1)
pop0(s) == Tail(s)

\* SortedList(iterable) and SortedList.add(value)
SortedList_empty(s) == <<>>
SortedList(s) == insertion_sort(s)
SortedList_add(s, x) == insort(s, x)

\* copy.deepcopy of a list of numbers: an equal list
deepcopy(s) == s

\* the object copy.deepcopy(x) returns: a new list at the address `fresh`,
\* never x itself
deepcopy_alias(given, fresh) == given
deepcopy_object(given, fresh) == fresh

\* the object `self.stream = initial_stream` binds: the caller's list
\* itself; no new list (at `fresh`) is made
field_stream_copy(given, fresh) == fresh
field_stream(given, fresh) == given

\* ---- heapq, on 0-based positions as in the library
RECURSIVE siftdown_loop(_, _, _, _)
siftdown_loop(heap, startpos, pos, newitem) ==
    IF pos > startpos /\ newitem < heap[((pos - 1) \div 2) + 1]
    THEN siftdown_loop([heap EXCEPT ![pos + 1] = heap[((pos - 1) \div 2) + 1]],
                       startpos, (pos - 1) \div 2, newitem)
    ELSE [heap EXCEPT ![pos + 1] = newitem]

_siftdown(heap, startpos, pos) == siftdown_loop(heap, startpos, pos, heap[pos + 1])

RECURSIVE siftup_loop(_, _, _, _)
siftup_loop(heap, startpos, pos, newitem) ==
    LET endpos == Len(heap)
        leftpos == 2 * pos + 1
        rightpos == leftpos + 1
        childpos == IF rightpos < endpos /\ ~(heap[leftpos + 1] < heap[rightpos + 1])
                    THEN rightpos ELSE leftpos
    IN  IF leftpos < endpos
        THEN siftup_loop([heap EXCEPT ![pos + 1] = heap[childpos + 1]],
                         startpos, childpos, newitem)
        ELSE _siftdown([heap EXCEPT ![pos + 1] = newitem], startpos, pos)

_siftup(heap, pos) == siftup_loop(heap, pos, pos, heap[pos + 1])

\* heapify(x): _siftup at positions n//2 - 1 down to 0
RECURSIVE heapify_from(_, _)
heapify_from(x, i) ==
    IF i < 0 THEN x ELSE heapify_from(_siftup(x, i), i - 1)

heapify(x) == heapify_from(x, (Len(x) \div 2) - 1)

\* heappush(heap, item): the heap after the push
heappush(heap, item) == _siftdown(Append(heap, item), 0, Len(heap))

\* heappop(heap): the heap after the pop (the popped item is not used by the caller)
heappop_peek(heap) == heap
heappop_no_sift(heap) ==
    LET lastelt == heap[Len(heap)]
        rest == SubSeq(heap, 1, Len(heap) - 1)
    IN  IF rest # <<>> THEN [rest EXCEPT ![1] = lastelt] ELSE rest
heappop(heap) ==
    LET lastelt == heap[Len(heap)]
        rest == SubSeq(heap, 1, Len(heap) - 1)
    IN  IF rest # <<>> THEN _siftup([rest EXCEPT ![1] = lastelt], 0) ELSE rest

\* ---- KthLargestElement helpers
_get_k_largest_elements_off_by_one(s, kk) == slice_from_end(sorted(s), kk + 1)
_get_k_largest_elements(s, kk) == slice_from_end(sorted(s), kk)

_get_kth_largest_element(s, kk) == _get_k_largest_elements(s, kk)[1]

\* the test `number > window[0]` of the three shortlist strategies
admits_reversed(x, window) == x < window[1]
admits_always(x, window) == TRUE
admits(x, window) == x > window[1]

\* ---- accessors
STREAM(o) == mem[stream[o]]
SL(o) == mem[k_largest_elements_sorted_list[o]]
BST(o) == mem[k_largest_elements_bst[o]]
HEAP(o) == mem[k_largest_elements_heap[o]]
WindowsIn(m, o) ==
    [sorted_list |-> m[k_largest_elements_sorted_list[o]],
     bst |-> m[k_largest_elements_bst[o]],
     heap |-> m[k_largest_elements_heap[o]]]
Windows(o) == WindowsIn(mem, o)

NoRets == [m \in Methods |-> NoReturn]
Busy == \E o \in Obj : pc[o] # "idle"

\* the timer decorator: one sample appended once the wrapped call has returned
timer(o, m) == [runtimes EXCEPT ![o][m] = @ + 1]

LogEntry(o, rets, raised) ==
    [number |-> number[o], ret |-> rets, raised |-> raised,
     before |-> before[o], after |-> WindowsIn(mem', o)]

\* ---- initial states: the caller holds a seed list and has constructed nothing
InitCommon ==
    /\ \E s \in Seeds : mem = [a \in Addr |-> IF a \in CallerLists THEN s ELSE <<>>]
    /\ \E kk \in 1..MaxK : arg_k = [o \in Obj |-> kk]
    /\ state = [o \in Obj |-> "Uninitialized"]
    /\ stream = [o \in Obj |-> None]
    /\ k = [o \in Obj |-> 0]
    /\ k_largest_elements_sorted_list = [o \in Obj |-> None]
    /\ k_largest_elements_bst = [o \in Obj |-> None]
    /\ k_largest_elements_heap = [o \in Obj |-> None]
    /\ runtimes = [o \in Obj |-> [m \in Methods |-> 0]]
    /\ pc = [o \in Obj |-> "idle"]
    /\ number = [o \in Obj |-> 0]
    /\ ret = [o \in Obj |-> NoRets]
    /\ before = [o \in Obj |-> [sorted_list |-> <<>>, bst |-> <<>>, heap |-> <<>>]]
    /\ log = [o \in Obj |-> <<>>]
    /\ observations = <<>>
    /\ seed0 = [o \in Obj |-> <<>>]

\* one object, as in the script
Init ==
    /\ InitCommon
    /\ live = {"A"}
    /\ initial_stream = [o \in Obj |-> <<"caller", "L1">>]

\* two objects fed the same observations, constructed from the same list
\* object or from two equal lists
InitPair ==
    /\ InitCommon
    /\ live = Obj
    /\ \E l \in CallerLists :
          initial_stream = [o \in Obj |-> IF o = "A" THEN <<"caller", "L1">> ELSE l]

\* ---- KthLargestElement.__init__
__init__(o) ==
    /\ o \in live
    /\ state[o] = "Uninitialized"
    /\ ~Busy
    /\ LET a_stream == field_stream(initial_stream[o], <<o, "stream">>)
           a_sl == <<o, "sorted_list">>
           a_bst == <<o, "bst">>
           a_hp == deepcopy_object(a_sl, <<o, "heap">>)
           m0 == [mem EXCEPT ![a_stream] = mem[initial_stream[o]]]
           shortlist == slice_from_end(
                            _get_k_largest_elements(m0[a_stream], arg_k[o]),
                            arg_k[o])
           m1 == [m0 EXCEPT ![a_sl] = shortlist]
           m2 == [m1 EXCEPT ![a_bst] = SortedList(m1[a_sl])]
           m3 == [m2 EXCEPT ![a_hp] = heapify(deepcopy(m2[a_sl]))]
       IN  /\ stream' = [stream EXCEPT ![o] = a_stream]
           /\ k' = [k EXCEPT ![o] = arg_k[o]]
           /\ k_largest_elements_sorted_list' =
                  [k_largest_elements_sorted_list EXCEPT ![o] = a_sl]
           /\ k_largest_elements_bst' = [k_largest_elements_bst EXCEPT ![o] = a_bst]
           /\ k_largest_elements_heap' = [k_largest_elements_heap EXCEPT ![o] = a_hp]
           /\ mem' = m3
    /\ seed0' = [seed0 EXCEPT ![o] = mem[initial_stream[o]]]
    /\ state' = [state EXCEPT ![o] = "Ready"]
    /\ UNCHANGED <<live, initial_stream, arg_k, runtimes, pc, number, ret, before,
                   log, observations>>

\* ---- KthLargestElement.add(number): the call is entered
\* The caller feeds every object the same observation sequence: an object
\* takes the next observation it has not seen, or a new one.
add(o, x) ==
    /\ o \in live
    /\ state[o] = "Ready"
    /\ \A p \in live : state[p] = "Ready"
    /\ ~Busy
    /\ Len(log[o]) < MaxAdds
    /\ \A p \in live : Len(log[o]) <= Len(log[p])
    /\ IF Len(log[o]) < Len(observations)
       THEN x = observations[Len(log[o]) + 1] /\ UNCHANGED observations
       ELSE observations' = Append(observations, x)
    /\ pc' = [pc EXCEPT ![o] = "stupid"]
    /\ number' = [number EXCEPT ![o] = x]
    /\ ret' = [ret EXCEPT ![o] = NoRets]
    /\ before' = [before EXCEPT ![o] = Windows(o)]
    /\ UNCHANGED <<mem, live, initial_stream, arg_k, state, stream, k,
                   k_largest_elements_sorted_list, k_largest_elements_bst,
                   k_largest_elements_heap, runtimes, log, seed0>>

\* ---- _add_stupid_method, under the timer
_add_stupid_method(o) ==
    /\ pc[o] = "stupid"
    /\ mem' = [mem EXCEPT ![stream[o]] = list_append(@, number[o])]
    /\ ret' = [ret EXCEPT ![o]["stupid"] =
                  _get_kth_largest_element(mem'[stream[o]], k[o])]
    /\ runtimes' = timer(o, "stupid")
    /\ pc' = [pc EXCEPT ![o] = "simple"]
    /\ UNCHANGED <<live, initial_stream, arg_k, state, stream, k,
                   k_largest_elements_sorted_list, k_largest_elements_bst,
                   k_largest_elements_heap, number, before, log, observations, seed0>>

\* ---- _add_simple_method, under the timer
\* On an empty shortlist `self.k_largest_elements_sorted_list[0]` raises
\* IndexError, which leaves add; the timer appends nothing.
_add_simple_method(o) ==
    /\ pc[o] = "simple"
    /\ IF SL(o) = <<>>
       THEN /\ UNCHANGED <<mem, ret, runtimes>>
            /\ pc' = [pc EXCEPT ![o] = "idle"]
            /\ log' = [log EXCEPT ![o] = Append(@, LogEntry(o, ret[o], TRUE))]
       ELSE /\ mem' = [mem EXCEPT ![k_largest_elements_sorted_list[o]] =
                          IF admits(number[o], @)
                          THEN list_sort(pop0(list_append(@, number[o])))
                          ELSE @]
            /\ ret' = [ret EXCEPT ![o]["simple"] = mem'[k_largest_elements_sorted_list[o]][1]]
            /\ runtimes' = timer(o, "simple")
            /\ pc' = [pc EXCEPT ![o] = "bst"]
            /\ UNCHANGED log
    /\ UNCHANGED <<live, initial_stream, arg_k, state, stream, k,
                   k_largest_elements_sorted_list, k_largest_elements_bst,
                   k_largest_elements_heap, number, before, observations, seed0>>

\* ---- _add_bst_method, under the timer
_add_bst_method(o) ==
    /\ pc[o] = "bst"
    /\ IF BST(o) = <<>>
       THEN /\ UNCHANGED <<mem, ret, runtimes>>
            /\ pc' = [pc EXCEPT ![o] = "idle"]
            /\ log' = [log EXCEPT ![o] = Append(@, LogEntry(o, ret[o], TRUE))]
       ELSE /\ mem' = [mem EXCEPT ![k_largest_elements_bst[o]] =
                          IF admits(number[o], @)
                          THEN pop0(SortedList_add(@, number[o]))
                          ELSE @]
            /\ ret' = [ret EXCEPT ![o]["bst"] = mem'[k_largest_elements_bst[o]][1]]
            /\ runtimes' = timer(o, "bst")
            /\ pc' = [pc EXCEPT ![o] = "heap"]
            /\ UNCHANGED log
    /\ UNCHANGED <<live, initial_stream, arg_k, state, stream, k,
                   k_largest_elements_sorted_list, k_largest_elements_bst,
                   k_largest_elements_heap, number, before, observations, seed0>>

\* ---- _add_heap_method, under the timer, in the steps the heap passes through
\* the method returns: its value, the timer's sample, and add returns
heap_return(o) ==
    /\ ret' = [ret EXCEPT ![o]["heap"] = mem'[k_largest_elements_heap[o]][1]]
    /\ runtimes' = timer(o, "heap")
    /\ pc' = [pc EXCEPT ![o] = "idle"]
    /\ log' = [log EXCEPT ![o] = Append(@, LogEntry(o, ret'[o], FALSE))]

\* `number > heap[0]` is false (or heap[0] raises IndexError on an empty heap)
_add_heap_method_reject(o) ==
    /\ pc[o] = "heap"
    /\ HEAP(o) = <<>> \/ ~admits(number[o], HEAP(o))
    /\ IF HEAP(o) = <<>>
       THEN /\ UNCHANGED <<mem, ret, runtimes>>
            /\ pc' = [pc EXCEPT ![o] = "idle"]
            /\ log' = [log EXCEPT ![o] = Append(@, LogEntry(o, ret[o], TRUE))]
       ELSE /\ UNCHANGED mem
            /\ heap_return(o)
    /\ UNCHANGED <<live, initial_stream, arg_k, state, stream, k,
                   k_largest_elements_sorted_list, k_largest_elements_bst,
                   k_largest_elements_heap, number, before, observations, seed0>>

\* `number > heap[0]` is true: heapq.heappush(heap, number)
_add_heap_method_heappush(o) ==
    /\ pc[o] = "heap"
    /\ HEAP(o) # <<>> /\ admits(number[o], HEAP(o))
    /\ mem' = [mem EXCEPT ![k_largest_elements_heap[o]] = heappush(@, number[o])]
    /\ pc' = [pc EXCEPT ![o] = "heap_pushed"]
    /\ UNCHANGED <<live, initial_stream, arg_k, state, stream, k,
                   k_largest_elements_sorted_list, k_largest_elements_bst,
                   k_largest_elements_heap, runtimes, number, ret, before, log,
                   observations, seed0>>

\* heapq.heappop(heap), then `return heap[0]`
_add_heap_method_heappop(o) ==
    /\ pc[o] = "heap_pushed"
    /\ mem' = [mem EXCEPT ![k_largest_elements_heap[o]] = heappop(@)]
    /\ heap_return(o)
    /\ UNCHANGED <<live, initial_stream, arg_k, state, stream, k,
                   k_largest_elements_sorted_list, k_largest_elements_bst,
                   k_largest_elements_heap, number, before, observations, seed0>>

Next ==
    \/ \E o \in Obj : __init__(o)
    \/ \E o \in Obj, x \in Numbers : add(o, x)
    \/ \E o \in Obj : _add_stupid_method(o)
    \/ \E o \in Obj : _add_simple_method(o)
    \/ \E o \in Obj : _add_bst_method(o)
    \/ \E o \in Obj : _add_heap_method_reject(o)
    \/ \E o \in Obj : _add_heap_method_heappush(o)
    \/ \E o \in Obj : _add_heap_method_heappop(o)

Spec == Init /\ [][Next]_vars

SpecPair == InitPair /\ [][Next]_vars

\* ---- vocabulary of the properties
Min(a, b) == IF a <= b THEN a ELSE b
Count(s, v) == Cardinality({i \in DOMAIN s : s[i] = v})
Elems(s) == {s[i] : i \in DOMAIN s}

\* v is the value at rank kk from the top of s (1-indexed, duplicates counted)
IsRankK(v, s, kk) ==
    /\ v \in Elems(s)
    /\ Cardinality({i \in DOMAIN s : s[i] > v}) < kk
    /\ Cardinality({i \in DOMAIN s : s[i] >= v}) >= kk

\* the add calls of o that have ended
Calls(o) == DOMAIN log[o]
WindowNames == {"sorted_list", "bst", "heap"}
WindowMethod(w) == IF w = "sorted_list" THEN "simple" ELSE w
AfterStupid(o) == pc[o] \in {"simple", "bst", "heap", "heap_pushed"}

\* w is, as a multiset, the kk largest values of s
IsTopK(w, s, kk) ==
    /\ Len(w) = kk
    /\ \A v \in Elems(w) : Count(w, v) <= Count(s, v)
    /\ \A v \in Elems(w), u \in Elems(s) : Count(w, u) < Count(s, u) => v >= u
    /\ \E v \in Elems(w) : (\A u \in Elems(w) : v <= u) /\ IsRankK(v, s, kk)

\* C1: with a seed of at least k values, every add call that has ended has
\* returned, and its four strategies returned the same value.
C1_Agreement ==
    \A o \in live : Len(seed0[o]) >= k[o] =>
        \A i \in Calls(o) :
            /\ ~log[o][i].raised
            /\ \A m \in Methods :
                  /\ log[o][i].ret[m] # NoReturn
                  /\ log[o][i].ret[m] = log[o][i].ret["stupid"]

\* C1 witness: an add that admitted its number into a seed longer than k, and
\* after which the four values agree.
C1_Witness ==
    /\ Len(seed0["A"]) > k["A"]
    /\ \E i \in Calls("A") :
          /\ ~log["A"][i].raised
          /\ log["A"][i].number > log["A"][i].before.heap[1]
          /\ log["A"][i].after.heap # log["A"][i].before.heap
          /\ \A m \in Methods : log["A"][i].ret[m] = log["A"][i].ret["heap"]

\* C2: once _add_stupid_method has run in an add call, the stream is the seed
\* followed by every observation fed so far, this one last, and when it holds
\* at least k values the value returned is the one at rank k from the top.
C2_FullScanOracle ==
    \A o \in live : AfterStupid(o) =>
        /\ STREAM(o) = seed0[o] \o SubSeq(observations, 1, Len(log[o]) + 1)
        /\ STREAM(o)[Len(STREAM(o))] = number[o]
        /\ Len(STREAM(o)) >= k[o] => IsRankK(ret[o]["stupid"], STREAM(o), k[o])

\* C2 witness: the full scan has answered over a stream longer than k that
\* holds a duplicate, and the answer is neither its smallest nor its largest
\* value.
C2_Witness ==
    /\ pc["A"] = "simple"
    /\ Len(STREAM("A")) > k["A"]
    /\ \E v \in Elems(STREAM("A")) : Count(STREAM("A"), v) > 1
    /\ IsRankK(ret["A"]["stupid"], STREAM("A"), k["A"])
    /\ \E u, v \in Elems(STREAM("A")) : u < ret["A"]["stupid"] /\ ret["A"]["stupid"] < v

\* C3: after construction and after every add call, the sorted shortlist and
\* the heap each hold exactly k elements.
C3_WindowSize ==
    \A o \in live : (state[o] = "Ready" /\ pc[o] = "idle") =>
        /\ Len(SL(o)) = k[o]
        /\ Len(HEAP(o)) = k[o]

\* C4: no object is Ready that was constructed from a seed whose length
\* differs from k.
C4_SeedLengthChecked ==
    \A o \in live : state[o] = "Ready" => Len(seed0[o]) = k[o]

\* C5: no add call ends normally (without an error reaching the caller) when
\* its strategies returned different values.
C5_DisagreementRaises ==
    \A o \in live : \A i \in Calls(o) :
        (\E m1, m2 \in Methods : log[o][i].ret[m1] # log[o][i].ret[m2])
            => log[o][i].raised

C7_MonotonicAdmission ==
    \A o \in live : \A i \in Calls(o) : ~log[o][i].raised =>
        \A w \in WindowNames :
            log[o][i].number <= log[o][i].before[w][1]
                => log[o][i].ret[WindowMethod(w)] = log[o][i].before[w][1]

\* C7 witness: the tie of the scenario seed=[5,5,5], k=3, add(5): a window of
\* three equal values is offered that value and every strategy returns it.
C7_Witness ==
    \E i \in Calls("A") :
        /\ ~log["A"][i].raised
        /\ k["A"] = 3
        /\ \A w \in WindowNames :
              /\ Len(log["A"][i].before[w]) = 3
              /\ Elems(log["A"][i].before[w]) = {log["A"][i].number}
              /\ log["A"][i].ret[WindowMethod(w)] = log["A"][i].number

\* C8: two add calls in a row with numbers strictly below the window minimum
\* return the same value both times (from every window strategy, and from the
\* full scan when the seed has at least k values), leave the three windows as
\* they were, and the rejected numbers are in no window.
C8_RejectedAddIdempotent ==
    \A o \in live : \A i \in Calls(o) :
        (/\ i + 1 \in Calls(o)
         /\ ~log[o][i].raised
         /\ log[o][i].number = log[o][i + 1].number
         /\ \A w \in WindowNames : log[o][i].number < log[o][i].before[w][1])
        => /\ ~log[o][i + 1].raised
           /\ \A w \in WindowNames :
                 /\ log[o][i].ret[WindowMethod(w)] = log[o][i + 1].ret[WindowMethod(w)]
                 /\ log[o][i].after[w] = log[o][i].before[w]
                 /\ log[o][i + 1].after[w] = log[o][i].before[w]
                 /\ log[o][i].number \notin Elems(log[o][i + 1].after[w])
           /\ Len(seed0[o]) >= k[o] => log[o][i].ret["stupid"] = log[o][i + 1].ret["stupid"]

\* C8 witness: the same number, below the minimum of a k-element window, has
\* been added twice in a row.
C8_Witness ==
    \E i \in Calls("A") :
        /\ i + 1 \in Calls("A")
        /\ ~log["A"][i].raised
        /\ Len(seed0["A"]) >= k["A"]
        /\ log["A"][i].number = log["A"][i + 1].number
        /\ \A w \in WindowNames : log["A"][i].number < log["A"][i].before[w][1]
        /\ log["A"][i + 1].after = log["A"][i].before

\* C9: two objects constructed with the same seed (of at least k values) and
\* the same k, and fed the same observations, return the same values, call by
\* call, from every strategy; the seeds may be one list or two equal lists.
C9_Determinism ==
    (/\ state["A"] = "Ready" /\ state["B"] = "Ready"
     /\ k["A"] = k["B"] /\ seed0["A"] = seed0["B"] /\ Len(seed0["A"]) >= k["A"])
    => \A i \in Calls("A") \cap Calls("B") :
           /\ log["A"][i].number = log["B"][i].number
           /\ log["A"][i].ret = log["B"][i].ret

\* C10: after construction and after every add, each window is, as a
\* multiset, the k largest values of the stream: it has k values, each at
\* least every observed value outside it, and its minimum is the k-th largest
\* value of the stream.
C10_TopKContent ==
    \A o \in live : (state[o] = "Ready" /\ pc[o] = "idle") =>
        \A w \in WindowNames : IsTopK(Windows(o)[w], STREAM(o), k[o])

MinOf(s) == CHOOSE v \in Elems(s) : \A u \in Elems(s) : v <= u

\* C11: an add of a number strictly greater than a window's minimum turns
\* that window, as a multiset, into the old window less one occurrence of its
\* minimum plus the number, keeps its size, and returns the minimum of the
\* new window.
C11_AdmissionStep ==
    \A o \in live : \A i \in Calls(o) : ~log[o][i].raised =>
        \A w \in WindowNames :
            LET e == log[o][i]
                old == e.before[w]
                new == e.after[w]
            IN  e.number > MinOf(old) =>
                    /\ Len(new) = Len(old)
                    /\ \A v \in Elems(old) \cup Elems(new) \cup {e.number} :
                          Count(new, v) + (IF v = MinOf(old) THEN 1 ELSE 0)
                              = Count(old, v) + (IF v = e.number THEN 1 ELSE 0)
                    /\ e.ret[WindowMethod(w)] = MinOf(new)

\* C11 witness: the scenario seed=[1,2,3,4,5], k=5, add(10) at the model's
\* size: the window {0,1,1} of k=3 values admits 2, a number above its
\* maximum, becomes {1,1,2}, and every strategy returns 1.
C11_Witness ==
    \E i \in Calls("A") :
        LET e == log["A"][i]
        IN  /\ ~e.raised
            /\ k["A"] = 3
            /\ e.before.sorted_list = <<0, 1, 1>>
            /\ e.number = 2
            /\ e.after.sorted_list = <<1, 1, 2>>
            /\ Elems(e.after.heap) = {1, 2} /\ Len(e.after.heap) = 3
            /\ \A m \in Methods : e.ret[m] = 1

\* C12: the stream is append-only.  Between add calls it is the seed followed
\* by the observations of every add call so far, admitted, rejected or
\* failed; and a step changes the stream of a constructed object only as
\* _add_stupid_method does, by one element equal to the number at its end.
C12_StreamOfAdds ==
    \A o \in live : (state[o] = "Ready" /\ pc[o] = "idle") =>
        STREAM(o) = seed0[o] \o SubSeq(observations, 1, Len(log[o]))

C12_OnlyFullScanAppends ==
    \A o \in live : (state[o] = "Ready" /\ mem'[stream[o]] # mem[stream[o]]) =>
        /\ pc[o] = "stupid"
        /\ mem'[stream[o]] = Append(mem[stream[o]], number[o])

C12_AppendOnly == []C12_StreamOfAdds /\ [][C12_OnlyFullScanAppends]_vars

\* C12 witness: two add calls have ended, one that admitted its number and
\* one that rejected it, and the stream is the seed with both numbers at its
\* end.
C12_Witness ==
    /\ pc["A"] = "idle"
    /\ Len(log["A"]) = 2
    /\ Len(seed0["A"]) >= k["A"]
    /\ log["A"][1].after # log["A"][1].before
    /\ log["A"][2].after = log["A"][2].before
    /\ STREAM("A") = seed0["A"] \o <<log["A"][1].number, log["A"][2].number>>

Ascending(s) == \A i \in 1..(Len(s) - 1) : s[i] <= s[i + 1]

\* binary min-heap order on 0-based positions: the element at pos is <= its
\* children at 2*pos+1 and 2*pos+2
IsMinHeap(h) ==
    \A pos \in 0..(Len(h) - 1) :
        /\ 2 * pos + 1 < Len(h) => h[pos + 1] <= h[2 * pos + 2]
        /\ 2 * pos + 2 < Len(h) => h[pos + 1] <= h[2 * pos + 3]

\* C13: between add calls the sorted shortlist is ascending and the heap is
\* in binary min-heap order; and in every state of a constructed object the
\* first element of each non-empty window is that window's minimum.
C13_Representation ==
    \A o \in live : state[o] = "Ready" =>
        /\ pc[o] = "idle" => (Ascending(SL(o)) /\ IsMinHeap(HEAP(o)))
        /\ \A w \in WindowNames :
              Windows(o)[w] # <<>> => Windows(o)[w][1] = MinOf(Windows(o)[w])

\* C13 witness: after an admission into a three-element window the heap is
\* in heap order without being ascending, and the shortlist is ascending.
C13_Witness ==
    /\ state["A"] = "Ready" /\ pc["A"] = "idle"
    /\ Len(log["A"]) >= 1
    /\ Len(HEAP("A")) = 3
    /\ IsMinHeap(HEAP("A")) /\ ~Ascending(HEAP("A"))
    /\ Ascending(SL("A")) /\ SL("A")[1] < SL("A")[3]

\* C14: an object constructed from a seed of at least k values stays Ready,
\* none of its add calls has raised, and every container whose element 0 the
\* next add reads is non-empty, so the next add cannot raise either.
C14_NoAddRaises ==
    \A o \in live : (state[o] = "Ready" /\ Len(seed0[o]) >= k[o]) =>
        /\ k[o] >= 1
        /\ \A i \in Calls(o) :
              ~log[o][i].raised /\ \A m \in Methods : log[o][i].ret[m] # NoReturn
        /\ \A w \in WindowNames : Windows(o)[w] # <<>>
        /\ AfterStupid(o) => STREAM(o) # <<>>

C14_ReadyStays ==
    \A o \in live : state[o] = "Ready" => state'[o] = "Ready"

C14_AddTotal == []C14_NoAddRaises /\ [][C14_ReadyStays]_vars

\* C14 witness: MaxAdds add calls, admitting and rejecting, have all returned
\* on an object with a seed of exactly k values, which is still Ready.
C14_Witness ==
    /\ state["A"] = "Ready" /\ pc["A"] = "idle"
    /\ Len(seed0["A"]) = k["A"]
    /\ Len(log["A"]) = MaxAdds
    /\ \A i \in Calls("A") : ~log["A"][i].raised
    /\ \E i, j \in Calls("A") :
          /\ log["A"][i].after # log["A"][i].before
          /\ log["A"][j].after = log["A"][j].before

\* C15: of two add calls in a row that both returned, the later one returns,
\* from every strategy, a value greater than or equal to the earlier one's.
C15_NeverDecreases ==
    \A o \in live : \A i \in Calls(o) :
        (i + 1 \in Calls(o) /\ ~log[o][i].raised /\ ~log[o][i + 1].raised) =>
            \A m \in Methods : log[o][i + 1].ret[m] >= log[o][i].ret[m]

\* the four containers of an object and the positions of add at which each
\* strategy's step is taken
Containers == {"stream", "sorted_list", "bst", "heap"}
ContainerAddr(o, c) ==
    IF c = "stream" THEN stream[o] ELSE
    IF c = "sorted_list" THEN k_largest_elements_sorted_list[o] ELSE
    IF c = "bst" THEN k_largest_elements_bst[o] ELSE k_largest_elements_heap[o]
StepsOf(c) ==
    IF c = "stream" THEN {"stupid"} ELSE
    IF c = "sorted_list" THEN {"simple"} ELSE
    IF c = "bst" THEN {"bst"} ELSE {"heap", "heap_pushed"}

\* C16: after construction the stream, the sorted shortlist, the SortedList
\* and the heap are four distinct list objects, and the content of each
\* changes only in a step of its own strategy.
C16_FourContainers ==
    \A o \in live : state[o] = "Ready" =>
        \A c, d \in Containers : c # d => ContainerAddr(o, c) # ContainerAddr(o, d)

C16_OwnStepOnly ==
    \A o \in live : state[o] = "Ready" =>
        \A c \in Containers :
            mem'[ContainerAddr(o, c)] # mem[ContainerAddr(o, c)] => pc[o] \in StepsOf(c)

C16_Independent == []C16_FourContainers /\ [][C16_OwnStepOnly]_vars

\* C16 witness: in an admitting add the shortlist strategy has taken its step
\* and the SortedList strategy has not: the shortlist has changed, the
\* SortedList and the heap are as they were when the call began.
C16_Witness ==
    /\ pc["A"] = "bst"
    /\ SL("A") # before["A"].sorted_list
    /\ BST("A") = before["A"].bst
    /\ HEAP("A") = before["A"].heap
    /\ STREAM("A") = seed0["A"] \o SubSeq(observations, 1, Len(log["A"]) + 1)

\* C17: the stream of a constructed object is the list object the caller
\* passed as initial_stream, not a copy: between add calls the caller's list
\* holds the seed followed by the numbers of the add calls so far.
C17_SeedNotCopied ==
    \A o \in live : state[o] = "Ready" =>
        /\ stream[o] = initial_stream[o]
        /\ stream[o] \in CallerLists
        /\ pc[o] = "idle" =>
              /\ Len(mem[initial_stream[o]]) = Len(seed0[o]) + Len(log[o])
              /\ mem[initial_stream[o]] =
                     seed0[o] \o [i \in 1..Len(log[o]) |-> log[o][i].number]

\* C17 witness: after two add calls the list the caller passed has grown by
\* the two numbers, while the caller's other, equal list, which it did not
\* pass, still holds the seed.
C17_Witness ==
    /\ state["A"] = "Ready" /\ pc["A"] = "idle"
    /\ Len(log["A"]) = 2
    /\ seed0["A"] # <<>>
    /\ mem[<<"caller", "L1">>] = seed0["A"] \o <<log["A"][1].number, log["A"][2].number>>
    /\ mem[<<"caller", "L2">>] = seed0["A"]

\* C18: between add calls each of the four runtime lists holds one sample per
\* add call made so far.
C18_OneSamplePerAdd ==
    \A o \in live : (state[o] = "Ready" /\ pc[o] = "idle") =>
        \A m \in Methods : runtimes[o][m] = Len(log[o])

====
